---------------------------- MODULE Spec2Model ----------------------------
(***************************************************************************)
(* A model of persephone_client: the endpoint resolver and the API client  *)
(* of PersephoneClient, and the build session of PersephoneBuildHelper.    *)
(*                                                                         *)
(* Strings that are paths are modelled by their split on "/": the string   *)
(* "api/v1/" is <<"api", "v1", "">>, the empty string is <<"">>, and       *)
(* appending "/" to a string appends an empty segment.  An absolute or     *)
(* relative URL is the record urlparse makes of it: scheme, netloc, path.  *)
(* Query, params and fragment are not modelled: no string of the model     *)
(* holds "?", ";" or "#".                                                  *)
(***************************************************************************)
EXTENDS Integers, Sequences, FiniteSets, TLC

VARIABLES
    root_endpoint,          \* PersephoneClient.root_endpoint
    project_id,             \* PersephoneBuildHelper.project_id
    commit_hash,            \* PersephoneBuildHelper.commit_hash
    branch_name,            \* PersephoneBuildHelper.branch_name
    original_build_number,  \* PersephoneBuildHelper.original_build_number
    original_build_url,     \* PersephoneBuildHelper.original_build_url
    pull_request_id,        \* PersephoneBuildHelper.pull_request_id
    build_id,               \* PersephoneBuildHelper.build_id
    call,                   \* the last call made: its name and arguments
    outcome,                \* what the last call did: return or raise
    http,                   \* the round trips of the last call: request and response
    ctor_build_id,          \* the build_id the constructor was given
    last_created,           \* the id the latest successful create_build stored
    phase,                  \* "new", "created" or "ended": the latest lifecycle success
    tracked                 \* builds created or adopted by the helper and not ended

vars == <<root_endpoint, project_id, commit_hash, branch_name,
          original_build_number, original_build_url, pull_request_id,
          build_id, call, outcome, http, ctor_build_id, last_created, phase,
          tracked>>

helper_fields == <<project_id, commit_hash, branch_name, original_build_number,
                   original_build_url, pull_request_id>>

-----------------------------------------------------------------------------
(* Bounds of the model. *)

\* The longest identifier of the resolver's inputs, in "/"-separated segments.
MaxIdSegments == 2

\* How many builds the server hands out ids for: the ids are 0 .. MaxBuilds - 1.
MaxBuilds == 3

-----------------------------------------------------------------------------
(* Python values: None, int, str (a str by its split on "/") and a dict of  *)
(* one key.                                                                *)

None == [t |-> "NoneType", i |-> 0, s |-> <<>>]

PyInt(n) == [t |-> "int", i |-> n, s |-> <<>>]

PyStr(segs) == [t |-> "str", i |-> 0, s |-> segs]

\* The dict {key: n}.
PyDict(key, n) == [t |-> "dict", i |-> n, s |-> <<key>>]

\* The truth value Python's "if x:" and "if not x:" test.
bool(x) ==
    CASE x.t = "NoneType" -> FALSE
      [] x.t = "int" -> x.i # 0
      [] x.t = "str" -> x.s # <<"">>
      [] x.t = "dict" -> TRUE

\* '{}/'.format(x): str(x) followed by "/".
format(x) ==
    CASE x.t = "NoneType" -> <<"None", "">>
      [] x.t = "int" -> <<ToString(x.i), "">>
      [] x.t = "str" -> x.s \o <<"">>

\* json.dumps(x), for None, an int, a str with no "/" and a dict of one key.
json_dumps(x) ==
    CASE x.t = "NoneType" -> "null"
      [] x.t = "int" -> ToString(x.i)
      [] x.t = "str" -> "\"" \o x.s[1] \o "\""
      [] x.t = "dict" -> "{\"" \o x.s[1] \o "\": " \o ToString(x.i) \o "}"

-----------------------------------------------------------------------------
(* urllib.parse.urljoin, as the endpoint methods use it. *)

Url(scheme, netloc, path) == [scheme |-> scheme, netloc |-> netloc, path |-> path]

\* The schemes urljoin resolves relative references against.
uses_relative == {"", "http", "https", "ftp"}

\* urlparse of a string with no scheme: a leading "//" starts the netloc.
urlparse(segs) ==
    IF Len(segs) >= 3 /\ segs[1] = "" /\ segs[2] = ""
    THEN Url("", segs[3],
             IF Len(segs) = 3 THEN <<"">> ELSE <<"">> \o SubSeq(segs, 4, Len(segs)))
    ELSE Url("", "", segs)

\* The schemes whose URLs hold a netloc.
uses_netloc == {"", "http", "https", "ftp"}

\* urlunparse: a path written after "//netloc" starts with "/".
urlunparse(scheme, netloc, path) ==
    IF /\ netloc # "" \/ (scheme # "" /\ scheme \in uses_netloc)
       /\ path # <<"">> /\ path[1] # ""
    THEN Url(scheme, netloc, <<"">> \o path)
    ELSE Url(scheme, netloc, path)

RECURSIVE filter_none(_)
\* filter(None, segments): the segments that are not empty.
filter_none(segs) ==
    IF segs = <<>> THEN <<>>
    ELSE IF Head(segs) = "" THEN filter_none(Tail(segs))
    ELSE <<Head(segs)>> \o filter_none(Tail(segs))

RECURSIVE remove_dots(_, _)
\* The loop over the segments: ".." pops, "." is skipped, the rest is appended.
remove_dots(segs, resolved_path) ==
    IF segs = <<>> THEN resolved_path
    ELSE IF Head(segs) = ".."
         THEN remove_dots(Tail(segs),
                          IF resolved_path = <<>> THEN <<>>
                          ELSE SubSeq(resolved_path, 1, Len(resolved_path) - 1))
    ELSE IF Head(segs) = "." THEN remove_dots(Tail(segs), resolved_path)
    ELSE remove_dots(Tail(segs), Append(resolved_path, Head(segs)))

\* resolve_path as plain concatenation would have it: the last segment of the
\* base path is kept and nothing is normalised.
resolve_path_concatenating(bpath, path) ==
    IF path[1] = "" /\ Len(path) > 1 THEN path
    ELSE SubSeq(bpath, 1, Len(bpath) - 1) \o <<bpath[Len(bpath)] \o path[1]>> \o Tail(path)

\* The path of the joined URL, from the base path and the reference's path.
resolve_path(bpath, path) ==
    LET base_parts == IF bpath[Len(bpath)] # ""
                      THEN SubSeq(bpath, 1, Len(bpath) - 1)
                      ELSE bpath
        joined == base_parts \o path
        segments == IF path[1] = "" /\ Len(path) > 1
                    THEN path
                    ELSE IF Len(joined) <= 2 THEN joined
                    ELSE <<joined[1]>>
                         \o filter_none(SubSeq(joined, 2, Len(joined) - 1))
                         \o <<joined[Len(joined)]>>
        dotted == remove_dots(segments, <<>>)
        resolved_path == IF segments[Len(segments)] \in {".", ".."}
                         THEN Append(dotted, "")
                         ELSE dotted
    IN  IF resolved_path = <<>> \/ resolved_path = <<"">>
        THEN <<"", "">>
        ELSE resolved_path

\* parse.urljoin(base, url), url a string with no scheme.
urljoin(base, url) ==
    LET u == urlparse(url)
    IN  IF base = Url("", "", <<"">>) THEN u
        ELSE IF url = <<"">> THEN base
        ELSE IF base.scheme \notin uses_relative THEN u
        ELSE IF u.netloc # "" THEN urlunparse(base.scheme, u.netloc, u.path)
        ELSE IF u.path = <<"">> THEN urlunparse(base.scheme, base.netloc, base.path)
        ELSE urlunparse(base.scheme, base.netloc, resolve_path(base.path, u.path))

-----------------------------------------------------------------------------
(* PersephoneClient: the endpoint resolver. *)

_get_api_endpoint(root) == urljoin(root, <<"api", "v1", "">>)

_get_projects_endpoint(root) == urljoin(_get_api_endpoint(root), <<"projects", "">>)

_get_project_endpoint(root, pid) ==
    urljoin(_get_projects_endpoint(root), format(pid))

_get_builds_endpoint(root, pid) ==
    urljoin(_get_project_endpoint(root, pid), <<"builds", "">>)

\* _get_build_endpoint joining onto the project's endpoint, "builds/" forgotten.
_get_build_endpoint_under_project(root, pid, bid) ==
    urljoin(_get_project_endpoint(root, pid), format(bid))

_get_build_endpoint(root, pid, bid) ==
    urljoin(_get_builds_endpoint(root, pid), format(bid))

_get_screenshots_endpoint(root, pid, bid) ==
    urljoin(_get_build_endpoint(root, pid, bid), <<"screenshots", "">>)

-----------------------------------------------------------------------------
(* HTTP: the requests the client builds, and what it does with a response. *)

NoBody == [kind |-> "none"]

\* requests.post(..., json=fields)
JsonBody(fields) == [kind |-> "json", json |-> fields]

\* requests.post(..., data=data, files=files)
MultipartBody(data, files) == [kind |-> "multipart", data |-> data, files |-> files]

Request(method, url, body) == [method |-> method, url |-> url, body |-> body]

\* A response body that is no JSON.
TextBody == [kind |-> "text"]

\* A response body that is a JSON value; has_id when it is an object with "id".
JsonValue(has_id, id) == [kind |-> "json", has_id |-> has_id, id |-> id]

Response(status_code, body) == [status_code |-> status_code, body |-> body]

Return(value) == [kind |-> "return", value |-> value]

Raise(exc) == [kind |-> "raise", exc |-> exc, status_code |-> 0]

\* requests.HTTPError, which holds the response and so its status code.
HTTPError(resp) == [kind |-> "raise", exc |-> "HTTPError", status_code |-> resp.status_code]

\* raise_for_status raising on server errors only.
raise_for_status_on_5xx_only(resp) == 500 <= resp.status_code /\ resp.status_code < 600

\* Whether resp.raise_for_status() raises: on a 4xx or 5xx status code.
raise_for_status(resp) == 400 <= resp.status_code /\ resp.status_code < 600

\* resp.raise_for_status(); return resp.json()
checked_json(resp) ==
    IF raise_for_status(resp) THEN HTTPError(resp)
    ELSE IF resp.body.kind # "json" THEN Raise("ValueError")
    ELSE Return(resp.body)

\* resp.raise_for_status(), and nothing returned
checked_none(resp) ==
    IF raise_for_status(resp) THEN HTTPError(resp) ELSE Return(None)

\* What one call of a client method did: its round trips and its result.
Exchange(request, resp, result) ==
    [http |-> <<[request |-> request, response |-> resp]>>, result |-> result]

-----------------------------------------------------------------------------
(* PersephoneClient: the operations.  resp is the server's answer. *)

get_projects(root, resp) ==
    Exchange(Request("GET", _get_projects_endpoint(root), NoBody), resp,
             checked_json(resp))

get_project(root, pid, resp) ==
    Exchange(Request("GET", _get_project_endpoint(root, pid), NoBody), resp,
             checked_json(resp))

get_builds(root, pid, resp) ==
    Exchange(Request("GET", _get_builds_endpoint(root, pid), NoBody), resp,
             checked_json(resp))

get_build(root, pid, bid, resp) ==
    Exchange(Request("GET", _get_build_endpoint(root, pid, bid), NoBody), resp,
             checked_json(resp))

PersephoneClient_create_build(root, pid, fields, resp) ==
    Exchange(Request("POST", _get_builds_endpoint(root, pid), JsonBody(fields)), resp,
             checked_json(resp))

PersephoneClient_delete_build(root, pid, bid, resp) ==
    Exchange(Request("DELETE", _get_build_endpoint(root, pid, bid), NoBody), resp,
             checked_none(resp))

PersephoneClient_finish_build(root, pid, bid, resp) ==
    Exchange(Request("POST", urljoin(_get_build_endpoint(root, pid, bid), <<"finish">>),
                     NoBody),
             resp, checked_json(resp))

PersephoneClient_fail_build(root, pid, bid, resp) ==
    Exchange(Request("POST", urljoin(_get_build_endpoint(root, pid, bid), <<"fail">>),
                     NoBody),
             resp, checked_json(resp))

post_screenshot(root, pid, bid, name, image_data, metadata, resp) ==
    Exchange(Request("POST", _get_screenshots_endpoint(root, pid, bid),
                     MultipartBody([name |-> name, metadata |-> json_dumps(metadata)],
                                   [image |-> image_data])),
             resp, checked_json(resp))

-----------------------------------------------------------------------------
(* PersephoneBuildHelper.  self is the helper's fields; each method gives   *)
(* the build_id it leaves, its result and the round trips it made.         *)

PersephoneException == Raise("PersephoneException")

Done(bid, result, trips) == [build_id |-> bid, result |-> result, http |-> trips]

\* subscripting a parsed body with ['id']
subscript_id(body) == IF body.has_id THEN Return(body.id) ELSE Raise("KeyError")

create_build(self, resp) ==
    IF bool(self.build_id)
    THEN Done(self.build_id, PersephoneException, <<>>)
    ELSE LET build == PersephoneClient_create_build(
                          self.root_endpoint, self.project_id,
                          [commit_hash |-> self.commit_hash,
                           branch_name |-> self.branch_name,
                           original_build_number |-> self.original_build_number,
                           original_build_url |-> self.original_build_url,
                           pull_request_id |-> self.pull_request_id],
                          resp)
         IN  IF build.result.kind = "raise"
             THEN Done(self.build_id, build.result, build.http)
             ELSE LET id == subscript_id(build.result.value)
                  IN  IF id.kind = "raise"
                      THEN Done(self.build_id, id, build.http)
                      ELSE Done(id.value, Return(None), build.http)

delete_build(self, resp) ==
    IF ~bool(self.build_id)
    THEN Done(self.build_id, PersephoneException, <<>>)
    ELSE LET r == PersephoneClient_delete_build(
                      self.root_endpoint, self.project_id, self.build_id, resp)
         IN  IF r.result.kind = "raise"
             THEN Done(self.build_id, r.result, r.http)
             ELSE Done(None, Return(None), r.http)

\* finish_build with the reset of build_id forgotten.
finish_build_keeping_build_id(self, resp) ==
    IF ~bool(self.build_id)
    THEN Done(self.build_id, PersephoneException, <<>>)
    ELSE LET r == PersephoneClient_finish_build(
                      self.root_endpoint, self.project_id, self.build_id, resp)
         IN  IF r.result.kind = "raise"
             THEN Done(self.build_id, r.result, r.http)
             ELSE Done(self.build_id, Return(None), r.http)

finish_build(self, resp) ==
    IF ~bool(self.build_id)
    THEN Done(self.build_id, PersephoneException, <<>>)
    ELSE LET r == PersephoneClient_finish_build(
                      self.root_endpoint, self.project_id, self.build_id, resp)
         IN  IF r.result.kind = "raise"
             THEN Done(self.build_id, r.result, r.http)
             ELSE Done(None, Return(None), r.http)

fail_build(self, resp) ==
    IF ~bool(self.build_id)
    THEN Done(self.build_id, PersephoneException, <<>>)
    ELSE LET r == PersephoneClient_fail_build(
                      self.root_endpoint, self.project_id, self.build_id, resp)
         IN  IF r.result.kind = "raise"
             THEN Done(self.build_id, r.result, r.http)
             ELSE Done(None, Return(None), r.http)

upload_screenshot(self, name, image_data, metadata, resp) ==
    IF ~bool(self.build_id)
    THEN Done(self.build_id, PersephoneException, <<>>)
    ELSE LET screenshot == post_screenshot(
                               self.root_endpoint, self.project_id, self.build_id,
                               name, image_data, metadata, resp)
         IN  IF screenshot.result.kind = "raise"
             THEN Done(self.build_id, screenshot.result, screenshot.http)
             ELSE Done(self.build_id, subscript_id(screenshot.result.value),
                       screenshot.http)

-----------------------------------------------------------------------------
(* The server, as far as the client can tell: the answers it may give.     *)
(* A success answer carries the documented JSON; any other answer carries  *)
(* text or a JSON value with no "id".                                      *)

\* The ids the server gives to builds.
ServerIds == {PyInt(n) : n \in 0 .. (MaxBuilds - 1)}

ScreenshotIds == {PyInt(0), PyInt(11)}

Is2xx(resp) == 200 <= resp.status_code /\ resp.status_code < 300

NonSuccess == {Response(c, b) : c \in {304, 404, 500},
                                b \in {TextBody, JsonValue(FALSE, None)}}

\* The answers to a request that creates or returns an object with an id in ids.
ObjectAnswers(ids) ==
    {Response(c, JsonValue(TRUE, id)) : c \in {200, 201}, id \in ids} \cup NonSuccess

\* The answers to a request that lists objects.
ListAnswers == {Response(200, JsonValue(FALSE, None))} \cup NonSuccess

\* The answers to a DELETE.
DeleteAnswers == {Response(204, TextBody)} \cup NonSuccess

-----------------------------------------------------------------------------
(* The build session: PersephoneBuildHelper with its PersephoneClient.     *)

\* last_created before any create_build has succeeded.
Unset == [t |-> "unset", i |-> 0, s |-> <<>>]

\* The root endpoints of the session.
SessionRoots == {Url("http", "example.com", <<"", "">>)}

ProjectIds == {PyInt(42)}

Self == [root_endpoint |-> root_endpoint,
         project_id |-> project_id,
         commit_hash |-> commit_hash,
         branch_name |-> branch_name,
         original_build_number |-> original_build_number,
         original_build_url |-> original_build_url,
         pull_request_id |-> pull_request_id,
         build_id |-> build_id]

\* PersephoneBuildHelper(root_endpoint, username, password, project_id, ...)
Init ==
    /\ root_endpoint \in SessionRoots
    /\ project_id \in ProjectIds
    /\ commit_hash \in {None, PyStr(<<"abc123">>)}
    /\ branch_name = PyStr(<<"master">>)
    /\ original_build_number = PyInt(7)
    /\ original_build_url = None
    /\ pull_request_id = None
    /\ ctor_build_id \in {None} \cup ServerIds
    /\ build_id = ctor_build_id
    /\ call = [op |-> "__init__", args |-> <<>>]
    /\ outcome = Return(None)
    /\ http = <<>>
    /\ last_created = Unset
    /\ phase = "new"
    /\ tracked = IF ctor_build_id = None THEN {} ELSE {ctor_build_id}

\* A call of a client method from outside the helper: the helper is untouched.
ClientCall(op, args, r) ==
    /\ call' = [op |-> op, args |-> args]
    /\ outcome' = r.result
    /\ http' = r.http
    /\ UNCHANGED <<root_endpoint, helper_fields, build_id, ctor_build_id,
                   last_created, phase, tracked>>

GetProjects ==
    \E resp \in ListAnswers :
        ClientCall("get_projects", <<>>, get_projects(root_endpoint, resp))

GetProject ==
    \E pid \in ProjectIds : \E resp \in ObjectAnswers({pid}) :
        ClientCall("get_project", <<pid>>, get_project(root_endpoint, pid, resp))

GetBuilds ==
    \E pid \in ProjectIds, resp \in ListAnswers :
        ClientCall("get_builds", <<pid>>, get_builds(root_endpoint, pid, resp))

GetBuild ==
    \E pid \in ProjectIds, bid \in ServerIds : \E resp \in ObjectAnswers({bid}) :
        ClientCall("get_build", <<pid, bid>>, get_build(root_endpoint, pid, bid, resp))

\* helper.create_build(): a success answer means the server made a new build.
CreateBuild ==
    \E resp \in ObjectAnswers(ServerIds \ tracked) :
        LET r == create_build(Self, resp)
        IN  /\ call' = [op |-> "create_build", args |-> <<>>]
            /\ build_id' = r.build_id
            /\ outcome' = r.result
            /\ http' = r.http
            /\ last_created' = IF r.result.kind = "return" THEN r.build_id
                               ELSE last_created
            /\ phase' = IF r.result.kind = "return" THEN "created" ELSE phase
            /\ tracked' = IF r.http # <<>> /\ Is2xx(resp)
                          THEN tracked \cup {resp.body.id}
                          ELSE tracked
            /\ UNCHANGED <<root_endpoint, helper_fields, ctor_build_id>>

\* A call of delete_build, finish_build or fail_build, r what the method did.
EndBuild(op, r) ==
    /\ call' = [op |-> op, args |-> <<>>]
    /\ build_id' = r.build_id
    /\ outcome' = r.result
    /\ http' = r.http
    /\ phase' = IF r.result.kind = "return" THEN "ended" ELSE phase
    /\ tracked' = IF r.result.kind = "return" THEN tracked \ {build_id} ELSE tracked
    /\ UNCHANGED <<root_endpoint, helper_fields, ctor_build_id, last_created>>

DeleteBuild ==
    \E resp \in DeleteAnswers : EndBuild("delete_build", delete_build(Self, resp))

FinishBuild ==
    \E resp \in ObjectAnswers({build_id}) :
        EndBuild("finish_build", finish_build(Self, resp))

FailBuild ==
    \E resp \in ObjectAnswers({build_id}) :
        EndBuild("fail_build", fail_build(Self, resp))

ScreenshotNames == {PyStr(<<"a", "b.png">>)}

ImageData == {"PNG"}

Metadata == {None, PyDict("k", 1)}

UploadScreenshot ==
    \E name \in ScreenshotNames, image_data \in ImageData, metadata \in Metadata,
       resp \in ObjectAnswers(ScreenshotIds) :
        LET r == upload_screenshot(Self, name, image_data, metadata, resp)
        IN  /\ call' = [op |-> "upload_screenshot",
                        args |-> <<name, image_data, metadata>>]
            /\ build_id' = r.build_id
            /\ outcome' = r.result
            /\ http' = r.http
            /\ UNCHANGED <<root_endpoint, helper_fields, ctor_build_id,
                           last_created, phase, tracked>>

Next ==
    \/ GetProjects
    \/ GetProject
    \/ GetBuilds
    \/ GetBuild
    \/ CreateBuild
    \/ DeleteBuild
    \/ FinishBuild
    \/ FailBuild
    \/ UploadScreenshot

Spec == Init /\ [][Next]_vars

-----------------------------------------------------------------------------
(* The endpoint resolver on its own: a client on any root endpoint, and    *)
(* the endpoint methods applied to any identifiers.                        *)

RootPaths ==
    {<<"">>, <<"", "">>, <<"", "app">>, <<"", "app", "">>, <<"", "app", "v2">>,
     <<"", "app", "..", "">>, <<"", ".", "">>, <<"", "app", "", "">>}

\* The root endpoints: absolute ones, one of a scheme urljoin does not
\* resolve against, and relative ones.
RootEndpoints ==
    {Url("http", "example.com", p) : p \in RootPaths}
        \cup {Url("foo", "example.com", <<"", "">>),
              Url("", "", <<"">>), Url("", "", <<"base", "">>)}

IdSegments == {"", ".", "..", "42"}

RECURSIVE SeqsUpTo(_, _)
\* The sequences over S of length 1 .. n.
SeqsUpTo(S, n) ==
    IF n = 0 THEN {}
    ELSE LET shorter == SeqsUpTo(S, n - 1)
         IN  {<<x>> : x \in S} \cup shorter
                 \cup {Append(q, x) : q \in shorter, x \in S}

\* The identifiers: an int, and every non-empty str over IdSegments.
Identifiers ==
    {PyInt(7)} \cup {PyStr(q) : q \in SeqsUpTo(IdSegments, MaxIdSegments) \ {<<"">>}}

InitUrl ==
    /\ root_endpoint \in RootEndpoints
    /\ project_id = None
    /\ commit_hash = None
    /\ branch_name = None
    /\ original_build_number = None
    /\ original_build_url = None
    /\ pull_request_id = None
    /\ ctor_build_id = None
    /\ build_id = None
    /\ call = [op |-> "__init__", args |-> <<>>]
    /\ outcome = Return(None)
    /\ http = <<>>
    /\ last_created = Unset
    /\ phase = "new"
    /\ tracked = {}

\* A client no method has been called on yet.
Fresh == call.op = "__init__"

\* A call of an endpoint method, url what it returned.
Resolve(op, args, url) ==
    /\ call' = [op |-> op, args |-> args]
    /\ outcome' = Return(url)
    /\ UNCHANGED <<root_endpoint, helper_fields, build_id, http, ctor_build_id,
                   last_created, phase, tracked>>

ApiEndpoint ==
    /\ Fresh
    /\ Resolve("_get_api_endpoint", <<>>, _get_api_endpoint(root_endpoint))

ProjectsEndpoint ==
    /\ Fresh
    /\ Resolve("_get_projects_endpoint", <<>>, _get_projects_endpoint(root_endpoint))

ProjectEndpoint ==
    /\ Fresh
    /\ \E p \in Identifiers :
           Resolve("_get_project_endpoint", <<p>>,
                   _get_project_endpoint(root_endpoint, p))

BuildsEndpoint ==
    /\ Fresh
    /\ \E p \in Identifiers :
           Resolve("_get_builds_endpoint", <<p>>,
                   _get_builds_endpoint(root_endpoint, p))

BuildEndpoint ==
    /\ Fresh
    /\ \E p \in Identifiers, b \in Identifiers :
           Resolve("_get_build_endpoint", <<p, b>>,
                   _get_build_endpoint(root_endpoint, p, b))

ScreenshotsEndpoint ==
    /\ Fresh
    /\ \E p \in Identifiers, b \in Identifiers :
           Resolve("_get_screenshots_endpoint", <<p, b>>,
                   _get_screenshots_endpoint(root_endpoint, p, b))

NextUrl ==
    \/ ApiEndpoint
    \/ ProjectsEndpoint
    \/ ProjectEndpoint
    \/ BuildsEndpoint
    \/ BuildEndpoint
    \/ ScreenshotsEndpoint

SpecUrl == InitUrl /\ [][NextUrl]_vars

-----------------------------------------------------------------------------
(* Properties of the endpoint resolver, under SpecUrl. *)

\* An identifier that is one URL-safe path segment: an int, or a str with no "/".
UrlSafe(x) == x.t = "int" \/ (x.t = "str" /\ Len(x.s) = 1)

\* C7, as stated: for every root endpoint and all non-empty identifiers p and
\* b, build_endpoint(p, b) is the join of builds_endpoint(p) with "{b}/" and
\* the join of project_endpoint(p) with "builds/{b}/".
C7_AssociativeForAllIdentifiers ==
    call.op = "_get_build_endpoint" =>
        LET p == call.args[1]
            b == call.args[2]
        IN  /\ outcome.value
                   = urljoin(_get_builds_endpoint(root_endpoint, p), format(b))
            /\ outcome.value
                   = urljoin(_get_project_endpoint(root_endpoint, p),
                             <<"builds">> \o format(b))

\* C7, amended: the same equalities for every root endpoint, every non-empty
\* identifier p and every non-empty URL-safe identifier b (one path segment,
\* so no "/" in it).
C7_AssociativeForUrlSafeBuild ==
    (call.op = "_get_build_endpoint" /\ UrlSafe(call.args[2])) =>
        LET p == call.args[1]
            b == call.args[2]
        IN  /\ outcome.value
                   = urljoin(_get_builds_endpoint(root_endpoint, p), format(b))
            /\ outcome.value
                   = urljoin(_get_project_endpoint(root_endpoint, p),
                             <<"builds">> \o format(b))

\* A build endpoint resolved for a project id holding "/" and a URL-safe build id.
C7_Witness ==
    /\ call.op = "_get_build_endpoint"
    /\ root_endpoint = Url("http", "example.com", <<"", "app", "">>)
    /\ call.args = <<PyStr(<<"42", "..">>), PyStr(<<"42">>)>>
    /\ outcome.value = Url("http", "example.com",
                           <<"", "app", "api", "v1", "projects", "builds", "42", "">>)

Front(q) == SubSeq(q, 1, Len(q) - 1)

EndsWithSlash(root) == Len(root.path) >= 2 /\ root.path[Len(root.path)] = ""

\* root followed by rel, for a root that ends with "/".
Followed(root, rel) == Url(root.scheme, root.netloc, Front(root.path) \o rel)

\* root with its last path segment dropped and rel appended.
Replaced(root, rel) == urlunparse(root.scheme, root.netloc, Front(root.path) \o rel)

\* The resource path of the endpoint a call resolved, relative to the root.
ResourcePath ==
    LET p == Front(format(call.args[1]))
        b == Front(format(call.args[2]))
    IN  CASE call.op = "_get_api_endpoint" -> <<"api", "v1", "">>
          [] call.op = "_get_projects_endpoint" -> <<"api", "v1", "projects", "">>
          [] call.op = "_get_project_endpoint" ->
                 <<"api", "v1", "projects">> \o p \o <<"">>
          [] call.op = "_get_builds_endpoint" ->
                 <<"api", "v1", "projects">> \o p \o <<"builds", "">>
          [] call.op = "_get_build_endpoint" ->
                 <<"api", "v1", "projects">> \o p \o <<"builds">> \o b \o <<"">>
          [] call.op = "_get_screenshots_endpoint" ->
                 <<"api", "v1", "projects">> \o p \o <<"builds">> \o b
                     \o <<"screenshots", "">>

\* The identifiers of the call are URL-safe.
UrlSafeArgs == \A i \in 1 .. Len(call.args) : UrlSafe(call.args[i])

\* C8, as stated: for a root endpoint R that ends with "/" and URL-safe
\* identifiers, each resolved endpoint is R followed by the resource path; when
\* R's path does not end with "/", its last segment is dropped first.
C8_RootFollowedByResourcePath ==
    (call.op # "__init__" /\ UrlSafeArgs) =>
        IF EndsWithSlash(root_endpoint)
        THEN outcome.value = Followed(root_endpoint, ResourcePath)
        ELSE outcome.value = Replaced(root_endpoint, ResourcePath)

\* A root endpoint of a scheme urljoin resolves against, whose path has no ".",
\* ".." or empty segment (but the empty ones a leading and a trailing "/" make).
PlainRoot(root) ==
    /\ root.scheme \in uses_relative
    /\ \A i \in 1 .. Len(root.path) :
           /\ root.path[i] \notin {".", ".."}
           /\ root.path[i] = "" => i \in {1, Len(root.path)}

\* URL-safe identifiers that are not the dot segments "." and "..".
PlainArgs ==
    \A i \in 1 .. Len(call.args) :
        /\ UrlSafe(call.args[i])
        /\ call.args[i].t = "str" => call.args[i].s[1] \notin {".", ".."}

\* C8, amended: the same for a root endpoint of a scheme urljoin resolves
\* against whose path has no ".", ".." or empty segment, and URL-safe
\* identifiers other than "." and "..".
C8_PlainRootFollowedByResourcePath ==
    (call.op # "__init__" /\ PlainRoot(root_endpoint) /\ PlainArgs) =>
        IF EndsWithSlash(root_endpoint)
        THEN outcome.value = Followed(root_endpoint, ResourcePath)
        ELSE outcome.value = Replaced(root_endpoint, ResourcePath)

\* The example of the specification: root http://example.com/ and project 42.
C8_Witness ==
    /\ call.op = "_get_project_endpoint"
    /\ root_endpoint = Url("http", "example.com", <<"", "">>)
    /\ call.args = <<PyStr(<<"42">>)>>
    /\ outcome.value = Url("http", "example.com",
                           <<"", "api", "v1", "projects", "42", "">>)

-----------------------------------------------------------------------------
(* Properties of the build session, under Spec.  In a step, the unprimed   *)
(* variables are the helper before the call and the primed ones the helper *)
(* after it; call' names the call the step makes.                          *)

EndingOps == {"finish_build", "fail_build", "delete_build"}

BuildOps == EndingOps \cup {"upload_screenshot"}

ClientOps == {"get_projects", "get_project", "get_builds", "get_build"}

\* C1: with build_id null, create_build issues exactly one POST to the builds
\* endpoint and on a success answer with an id stores that id; whatever id
\* the server returned, a second create_build before the build is ended raises
\* PersephoneException and issues no request.
C1_CreateOnceThenRefuse ==
    [][/\ (call'.op = "create_build" /\ build_id = None) =>
              /\ Len(http') = 1
              /\ http'[1].request.method = "POST"
              /\ http'[1].request.url = _get_builds_endpoint(root_endpoint, project_id)
              /\ (Is2xx(http'[1].response) /\ http'[1].response.body.has_id) =>
                     build_id' = http'[1].response.body.id
       /\ (call'.op = "create_build" /\ phase = "created") =>
              /\ outcome' = PersephoneException
              /\ http' = <<>>
      ]_vars

\* C2: a call whose precondition fails (finish, fail, delete or upload with
\* build_id null, create with build_id non-null) raises PersephoneException,
\* issues no request and leaves build_id as it was.
C2_PreconditionFailuresAreLocal ==
    [][((call'.op \in BuildOps /\ build_id = None)
            \/ (call'.op = "create_build" /\ build_id # None)) =>
           /\ outcome' = PersephoneException
           /\ http' = <<>>
           /\ build_id' = build_id
      ]_vars

C4_EndingIsTerminal ==
    [][/\ (call'.op \in EndingOps /\ outcome'.kind = "return") => build_id' = None
       /\ (phase = "ended" /\ call'.op \in BuildOps) =>
              /\ outcome' = PersephoneException
              /\ http' = <<>>
       /\ (phase = "ended" /\ phase' # "ended") =>
              /\ call'.op = "create_build"
              /\ outcome'.kind = "return"
      ]_vars

\* An upload refused after a build was created and then finished.
C4_Witness ==
    /\ phase = "ended"
    /\ last_created # Unset
    /\ call.op = "upload_screenshot"
    /\ outcome = PersephoneException
    /\ build_id = None

\* C5: the helper has at most one build it created and has not ended, and
\* build_id is non-null exactly when it has one.  Stated for a helper
\* constructed without a build_id, whose builds are the ones it created.
C5_AtMostOneActiveBuild ==
    ctor_build_id = None =>
        /\ Cardinality(tracked) <= 1
        /\ build_id # None <=> tracked # {}

\* C6: every client operation, and every helper operation whose precondition
\* holds, issues exactly one request whatever the answer, and no call issues
\* a second one.
C6_OneRoundTripPerOperation ==
    [][/\ call'.op \in ClientOps => Len(http') = 1
       /\ (call'.op = "create_build" /\ build_id = None) => Len(http') = 1
       /\ (call'.op \in BuildOps /\ build_id # None) => Len(http') = 1
       /\ Len(http') <= 1
      ]_vars

\* C9: with a build B held, upload_screenshot issues one multipart POST to
\* the screenshots endpoint of B with fields name and metadata (as JSON) and
\* the file image, returns the id in the answer, and leaves build_id at B.
C9_UploadKeepsTheBuild ==
    [][(call'.op = "upload_screenshot" /\ build_id # None) =>
           /\ Len(http') = 1
           /\ http'[1].request.method = "POST"
           /\ http'[1].request.url
                  = _get_screenshots_endpoint(root_endpoint, project_id, build_id)
           /\ http'[1].request.body
                  = [kind |-> "multipart",
                     data |-> [name |-> call'.args[1],
                               metadata |-> IF call'.args[3] = None THEN "null"
                                            ELSE "{\"k\": 1}"],
                     files |-> [image |-> call'.args[2]]]
           /\ Is2xx(http'[1].response) =>
                  outcome' = Return(http'[1].response.body.id)
           /\ build_id' = build_id
      ]_vars

\* The build id the helper holds by C10: the one the latest successful
\* create_build returned, or the constructor's when none has succeeded.
HeldBuild == IF last_created = Unset THEN ctor_build_id ELSE last_created

\* The URL a build-scoped request of op goes to, for project pid and build bid.
Target(op, root, pid, bid) ==
    CASE op = "delete_build" -> _get_build_endpoint(root, pid, bid)
      [] op = "finish_build" -> urljoin(_get_build_endpoint(root, pid, bid), <<"finish">>)
      [] op = "fail_build" -> urljoin(_get_build_endpoint(root, pid, bid), <<"fail">>)
      [] op = "upload_screenshot" -> _get_screenshots_endpoint(root, pid, bid)

\* C10: every build-scoped request targets project_id and the build id held;
\* a helper constructed with a build_id can upload without create_build; no
\* operation changes project_id or the build metadata.
C10_RequestsTargetTheHeldBuild ==
    [][/\ (call'.op \in BuildOps /\ http' # <<>>) =>
              /\ build_id = HeldBuild
              /\ http'[1].request.url
                     = Target(call'.op, root_endpoint, project_id, HeldBuild)
       /\ (call.op = "__init__" /\ ctor_build_id # None
               /\ call'.op = "upload_screenshot") =>
              /\ Len(http') = 1
              /\ outcome' # PersephoneException
       /\ UNCHANGED helper_fields
      ]_vars

=============================================================================
